---- MODULE Spec2Model ----
(***************************************************************************)
(* The ephemeral journal of the Haeuso web client.                         *)
(*                                                                         *)
(*   journal-repository.ts  normalizeJournalEntry, filterActiveJournal-    *)
(*                          Entries, loadJournalEntries, saveJournalEntries *)
(*   App.tsx                the React component: the working set           *)
(*                          (`entries`), its load / save / expiry effects, *)
(*                          the submission flow and the delete / undo flow *)
(*                                                                         *)
(* Time is in milliseconds, as Date.now() gives it.  A timestamp string    *)
(* is a record [t, v]: t = "iso" is the ISO-8601 text of the instant v,    *)
(* t = "junk" is a string Date.parse cannot read, t = "missing" is a field *)
(* that is absent or not a string.  A date string is [t |-> "ymd", v] for  *)
(* the calendar day number v.                                              *)
(*                                                                         *)
(* The browser runs one task at a time.  A user event or a timer callback  *)
(* is one action; the re-render it causes and the effects of that render   *)
(* are the steps React runs before it takes the next event (pc).  The      *)
(* clock is read as advancing between two tasks, and a timer callback runs *)
(* at or after its deadline, never before it.                              *)
(***************************************************************************)
EXTENDS Integers, Sequences, FiniteSets, TLC

ONE_DAY_MS == 24 * 60 * 60 * 1000
UNDO_TIMEOUT_MS == 5000
PRUNE_SKEW_MS == 25

\* Bounds of the exploration.
MaxTicks == 2
MaxUuids == 1

\* The amounts by which the clock is seen to advance between two steps.
TickSteps == {UNDO_TIMEOUT_MS, ONE_DAY_MS}

EMOTIONS == {"calm", "happy", "angry", "anxious", "sad"}
\* The emotions the user picks in the explored runs.
EmotionInputs == {"calm", "sad"}
\* The texts the user types in the explored runs; the first is blank.
ContentInputs == {"  ", "text A"}

VARIABLES
    journalStore,            \* 'local' | 'memory', fixed at module load
    localStorage,            \* the value under STORAGE_KEY
    inMemoryEntries,         \* the module-level buffer of the memory store
    storageFault,            \* what the browser's localStorage refuses:
                             \*   "none", "read" (getItem throws) or
                             \*   "write" (setItem throws)
    now,                     \* Date.now()
    ticks,                   \* how many times the clock advanced
    pc,                      \* what React runs next
    entries,                 \* useState: the working set
    loaded,                  \* the value the load effect handed to setEntries
    undoEntry,               \* useState: <<>> is null, <<e>> the pending entry
    undoTimerRef,            \* useRef: the handle of the undo timer
    pruneTimeoutId,          \* the handle the expiry effect's cleanup holds
    timers,                  \* the timers armed in the browser
    uuidCounter,             \* how many ids crypto.randomUUID() has given
    content,                 \* useState: the textarea
    selectedEmotion,         \* useState
    comfort,                 \* useState: TRUE while the comfort modal shows
    lastEntryIdFromComfort,  \* useState: 0 is null
    comfortLoading,          \* useState
    comfortError,            \* useState: "" is no error
    flushSubmitting,         \* useState
    inflight,                \* the handleRelease call awaiting the provider
    lastSave,                \* history: the last saveJournalEntries call, if
                             \*   loadJournalEntries has not run since
    beforeDelete,            \* history: the working set when the pending
                             \*   entry was deleted
    lastOp                   \* history: the last action taken

storeVars == <<journalStore, localStorage, inMemoryEntries, storageFault>>
clockVars == <<now, ticks>>
undoVars == <<undoEntry, undoTimerRef, beforeDelete>>
formVars == <<content, selectedEmotion, comfort, lastEntryIdFromComfort,
              comfortLoading, comfortError, flushSubmitting, inflight>>
vars == <<journalStore, localStorage, inMemoryEntries, storageFault, now, ticks, pc, entries,
          loaded, undoEntry, undoTimerRef, pruneTimeoutId, timers, uuidCounter,
          content, selectedEmotion, comfort, lastEntryIdFromComfort,
          comfortLoading, comfortError, flushSubmitting, inflight, lastSave,
          beforeDelete, lastOp>>

----------------------------------------------------------------------------
\* Strings and numbers

\* A timestamp text is a record: "iso" is the text toISOString() gives for
\* the instant v (ms since the epoch), "isoz" another ISO-8601 text of the
\* instant v (no milliseconds, a zone offset), "isofar" the toISOString() text
\* of an instant at the end of the range of Date, far * MAX_TIME_MS + v,
\* "ymd" a date-only text (day v since the epoch), "cut" the first ten
\* characters of an "isofar" text, "junk" any other text, "missing" a value
\* that is no string.
Iso(ms) == [t |-> "iso", far |-> 0, v |-> ms]
IsoZ(ms) == [t |-> "isoz", far |-> 0, v |-> ms]
IsoFar(far, ms) == [t |-> "isofar", far |-> far, v |-> ms]
Ymd(day) == [t |-> "ymd", far |-> 0, v |-> day]
Junk == [t |-> "junk", far |-> 0, v |-> 0]
Missing == [t |-> "missing", far |-> 0, v |-> 0]
RangeError == [t |-> "RangeError", far |-> 0, v |-> 0]

\* A number is far * MAX_TIME_MS + v, where MAX_TIME_MS = 8.64e15 is the
\* largest time value of a Date and v is small beside it; far = 0 for every
\* instant near the epoch.
NaN == [fin |-> FALSE, far |-> 0, v |-> 0]
Num(n) == [fin |-> TRUE, far |-> 0, v |-> n]
FarNum(far, n) == [fin |-> TRUE, far |-> far, v |-> n]
Plus(x, n) == [x EXCEPT !.v = @ + n]
Less(x, y) == x.far < y.far \/ (x.far = y.far /\ x.v < y.v)

\* |time value| <= 8.64e15
InDateRange(x) ==
    /\ x.fin
    /\ \/ x.far = 0
       \/ x.far = 1 /\ x.v <= 0
       \/ x.far = 0 - 1 /\ x.v >= 0

\* Date.parse of a timestamp text: the instant of an ISO text, the UTC
\* midnight of a date-only text, NaN for anything else.
DateParse(s) ==
    CASE s.t \in {"iso", "isoz"} -> Num(s.v)
      [] s.t = "isofar" -> IF InDateRange(FarNum(s.far, s.v))
                           THEN FarNum(s.far, s.v) ELSE NaN
      [] s.t = "ymd" -> Num(s.v * ONE_DAY_MS)
      [] OTHER -> NaN

\* new Date(x).toISOString(): throws RangeError for an invalid date.
ToISOString(x) ==
    IF ~InDateRange(x) THEN RangeError
    ELSE IF x.far = 0 THEN Iso(x.v)
    ELSE IsoFar(x.far, x.v)

\* isoString.slice(0, 10): the UTC calendar day of the instant; of a text
\* with an expanded year, its first ten characters.
Slice10(s) ==
    IF s.t = "iso" THEN Ymd(s.v \div ONE_DAY_MS)
    ELSE [t |-> "cut", far |-> s.far, v |-> s.v]

\* content.trim()
Trim(c) == IF c \in {"", "  "} THEN "" ELSE c

isString(x) == x.t # "missing"

----------------------------------------------------------------------------
\* journal-repository.ts

isEmotion(value) == value \in EMOTIONS

\* The deprecated labels are not mapped.
normalizeEmotion_NoLegacy(value) == IF isEmotion(value) THEN value ELSE "calm"

normalizeEmotion(value) ==
    IF isEmotion(value) THEN value
    ELSE IF value = "tired" THEN "sad"
    ELSE IF value = "grateful" \/ value = "relieved" THEN "calm"
    ELSE "calm"

\* The typeof test the wrong way round: every string gives null.
normalizeDateTime_NoStrings(value) == Missing

\* A result of null is Missing.
normalizeDateTime(value) ==
    IF ~isString(value) THEN Missing
    ELSE IF ~DateParse(value).fin THEN Missing
    ELSE ToISOString(DateParse(value))

\* The date read as UTC midnight, as Date.parse reads a date-only text.
normalizeLegacyDate_Utc(dateValue, tz) ==
    IF ~isString(dateValue) THEN Missing
    ELSE IF dateValue.t # "ymd" THEN Missing
    ELSE ToISOString(Num(dateValue.v * ONE_DAY_MS))

\* `${dateValue}T00:00:00` is read as local time; tz is the zone's offset
\* from UTC in ms (local = UTC + tz).  Only a date-only text gives a
\* readable string when T00:00:00 is appended to it.
normalizeLegacyDate(dateValue, tz) ==
    IF ~isString(dateValue) THEN Missing
    ELSE IF dateValue.t # "ymd" THEN Missing
    ELSE ToISOString(Num(dateValue.v * ONE_DAY_MS - tz))

\* entry is a parsed JSON object; uuid is what crypto.randomUUID() gives if
\* it is called; id 0 is an id that is missing or not a string.
normalizeJournalEntry(entry, nowMs, tz, uuid) ==
    LET viaCreatedAt == normalizeDateTime(entry.createdAt)
        viaDate == normalizeLegacyDate(entry.date, tz)
        normalizedCreatedAt ==
            IF viaCreatedAt # Missing THEN viaCreatedAt
            ELSE IF viaDate # Missing THEN viaDate
            ELSE ToISOString(Num(nowMs))
        createdAtMs == DateParse(normalizedCreatedAt)
        viaExpiresAt == normalizeDateTime(entry.expiresAt)
        normalizedExpiresAt ==
            IF viaExpiresAt # Missing THEN viaExpiresAt
            ELSE ToISOString(Plus(createdAtMs, ONE_DAY_MS))
        normalizedDate ==
            IF isString(entry.date) THEN entry.date
            ELSE Slice10(normalizedCreatedAt)
    IN [id |-> IF entry.id # 0 THEN entry.id ELSE uuid,
        date |-> normalizedDate,
        emotion |-> normalizeEmotion(entry.emotion),
        createdAt |-> normalizedCreatedAt,
        expiresAt |-> normalizedExpiresAt]

\* >= in the place of >.
isActive_Inclusive(entry, nowMs) ==
    LET expiresAtMs == DateParse(entry.expiresAt)
    IN expiresAtMs.fin /\ ~Less(expiresAtMs, Num(nowMs))

isActive(entry, nowMs) ==
    LET expiresAtMs == DateParse(entry.expiresAt)
    IN expiresAtMs.fin /\ Less(Num(nowMs), expiresAtMs)

filterActiveJournalEntries(es, nowMs) ==
    SelectSeq(es, LAMBDA entry : isActive(entry, nowMs))


\* JSON.stringify of the entries, then JSON.parse of that text: an array of
\* objects with the five fields.
ToJson(entry) ==
    [obj |-> TRUE, id |-> entry.id, date |-> entry.date, emotion |-> entry.emotion,
     createdAt |-> entry.createdAt, expiresAt |-> entry.expiresAt]

Stringify(es) == [kind |-> "array", items |-> [i \in 1..Len(es) |-> ToJson(es[i])]]

\* How many of the first i objects of items make normalizeJournalEntry call
\* crypto.randomUUID().
RECURSIVE UuidCalls(_, _)
UuidCalls(items, i) ==
    IF i = 0 THEN 0
    ELSE UuidCalls(items, i - 1) + (IF items[i].id = 0 THEN 1 ELSE 0)

\* new Date(...).toISOString() threw while normalizeJournalEntry built the
\* entry.
Raised(entry) == entry.createdAt = RangeError \/ entry.expiresAt = RangeError

\* The objects of items before the first one whose normalization throws.
RECURSIVE BeforeRaise(_, _, _, _)
BeforeRaise(items, nowMs, tz, uuids) ==
    IF items = <<>> THEN <<>>
    ELSE IF Raised(normalizeJournalEntry(items[1], nowMs, tz, uuids + 1)) THEN <<>>
    ELSE <<items[1]>> \o BeforeRaise(Tail(items), nowMs, tz,
                                     uuids + (IF items[1].id = 0 THEN 1 ELSE 0))

\* The try block without its localStorage.setItem of the pruned array.
loadFromLocalStorage_NoRewrite(storage, nowMs, tz, uuids, fault) ==
    LET objects == SelectSeq(storage.items, LAMBDA item : item.obj)
        normalizedEntries ==
            [i \in 1..Len(objects) |->
                normalizeJournalEntry(objects[i], nowMs, tz,
                                      uuids + UuidCalls(objects, i))]
        activeEntries == filterActiveJournalEntries(normalizedEntries, nowMs)
        normalized == BeforeRaise(objects, nowMs, tz, uuids)
    IN IF fault = "read" \/ storage.kind = "malformed"
       THEN [raised |-> TRUE, result |-> <<>>, localStorage |-> storage,
             uuidCounter |-> uuids]
       ELSE IF storage.kind # "array"
       THEN [raised |-> FALSE, result |-> <<>>, localStorage |-> storage,
             uuidCounter |-> uuids]
       ELSE IF Len(normalized) # Len(objects)
       THEN [raised |-> TRUE, result |-> <<>>, localStorage |-> storage,
             uuidCounter |-> uuids + UuidCalls(normalized, Len(normalized))]
       ELSE [raised |-> FALSE, result |-> activeEntries, localStorage |-> storage,
             uuidCounter |-> uuids + UuidCalls(objects, Len(objects))]

\* The try block of loadJournalEntries: raised when a statement of it
\* throws.
loadFromLocalStorage(storage, nowMs, tz, uuids, fault) ==
    LET objects == SelectSeq(storage.items, LAMBDA item : item.obj)
        normalizedEntries ==
            [i \in 1..Len(objects) |->
                normalizeJournalEntry(objects[i], nowMs, tz,
                                      uuids + UuidCalls(objects, i))]
        activeEntries == filterActiveJournalEntries(normalizedEntries, nowMs)
        normalized == BeforeRaise(objects, nowMs, tz, uuids)
    IN IF fault = "read"
       THEN [raised |-> TRUE, result |-> <<>>, localStorage |-> storage,
             uuidCounter |-> uuids]
       ELSE IF storage.kind = "absent"
       THEN [raised |-> FALSE, result |-> <<>>, localStorage |-> storage,
             uuidCounter |-> uuids]
       ELSE IF storage.kind = "malformed"
       THEN [raised |-> TRUE, result |-> <<>>, localStorage |-> storage,
             uuidCounter |-> uuids]
       ELSE IF storage.kind # "array"
       THEN [raised |-> FALSE, result |-> <<>>, localStorage |-> storage,
             uuidCounter |-> uuids]
       ELSE IF Len(normalized) # Len(objects)
       THEN [raised |-> TRUE, result |-> <<>>, localStorage |-> storage,
             uuidCounter |-> uuids + UuidCalls(normalized, Len(normalized))]
       ELSE IF Len(activeEntries) # Len(normalizedEntries) /\ fault = "write"
       THEN [raised |-> TRUE, result |-> <<>>, localStorage |-> storage,
             uuidCounter |-> uuids + UuidCalls(objects, Len(objects))]
       ELSE [raised |-> FALSE, result |-> activeEntries,
             localStorage |->
                 IF Len(activeEntries) # Len(normalizedEntries)
                 THEN Stringify(activeEntries) ELSE storage,
             uuidCounter |-> uuids + UuidCalls(objects, Len(objects))]

\* loadJournalEntries without its catch.
loadJournalEntries_NoCatch(store, storage, memory, nowMs, tz, uuids, fault) ==
    LET try == loadFromLocalStorage(storage, nowMs, tz, uuids, fault)
    IN [raised |-> try.raised, result |-> try.result,
        localStorage |-> try.localStorage, inMemoryEntries |-> memory,
        uuidCounter |-> try.uuidCounter]

\* loadJournalEntries(): whether it raises, what it returns and what it
\* leaves in the two stores and in the id generator.
loadJournalEntries(store, storage, memory, nowMs, tz, uuids, fault) ==
    IF store = "memory"
    THEN LET active == filterActiveJournalEntries(memory, nowMs)
         IN [raised |-> FALSE, result |-> active, localStorage |-> storage,
             inMemoryEntries |-> active, uuidCounter |-> uuids]
    ELSE LET try == loadFromLocalStorage(storage, nowMs, tz, uuids, fault)
         IN [raised |-> FALSE,
             result |-> IF try.raised THEN <<>> ELSE try.result,
             localStorage |-> try.localStorage, inMemoryEntries |-> memory,
             uuidCounter |-> try.uuidCounter]

\* saveJournalEntries without its filter.
saveJournalEntries_Unfiltered(store, storage, memory, es, nowMs, fault) ==
    IF store = "memory"
    THEN [raised |-> FALSE, localStorage |-> storage, inMemoryEntries |-> es]
    ELSE IF fault = "write"
    THEN [raised |-> TRUE, localStorage |-> storage, inMemoryEntries |-> memory]
    ELSE [raised |-> FALSE, localStorage |-> Stringify(es), inMemoryEntries |-> memory]

\* saveJournalEntries with a catch around setItem.
saveJournalEntries_Swallows(store, storage, memory, es, nowMs, fault) ==
    LET activeEntries == filterActiveJournalEntries(es, nowMs)
    IN IF store = "memory"
       THEN [raised |-> FALSE, localStorage |-> storage,
             inMemoryEntries |-> activeEntries]
       ELSE IF fault = "write"
       THEN [raised |-> FALSE, localStorage |-> storage, inMemoryEntries |-> memory]
       ELSE [raised |-> FALSE, localStorage |-> Stringify(activeEntries),
             inMemoryEntries |-> memory]

\* saveJournalEntries(entries): whether it raises and what it leaves in the
\* two stores.
saveJournalEntries(store, storage, memory, es, nowMs, fault) ==
    LET activeEntries == filterActiveJournalEntries(es, nowMs)
    IN IF store = "memory"
       THEN [raised |-> FALSE, localStorage |-> storage,
             inMemoryEntries |-> activeEntries]
       ELSE IF fault = "write"
       THEN [raised |-> TRUE, localStorage |-> storage, inMemoryEntries |-> memory]
       ELSE [raised |-> FALSE, localStorage |-> Stringify(activeEntries),
             inMemoryEntries |-> memory]

----------------------------------------------------------------------------
\* The environment

\* The zone offset of the browser (Asia/Seoul), local = UTC + offset.
TimezoneOffsetMs == 9 * 60 * 60 * 1000

\* What localStorage may refuse for the whole session: nothing, reads
\* (SecurityError), writes (QuotaExceededError).
StorageFaults == {"none", "read", "write"}

Absent == [kind |-> "absent", items |-> <<>>]
Malformed == [kind |-> "malformed", items |-> <<>>]

\* An entry as handleRelease builds it.
Entry(id, emotion, createdAtMs) ==
    [id |-> id, date |-> Slice10(ToISOString(Num(createdAtMs))), emotion |-> emotion,
     createdAt |-> ToISOString(Num(createdAtMs)),
     expiresAt |-> ToISOString(Num(createdAtMs + ONE_DAY_MS))]

\* Records of an earlier format: no id, no timestamps, a deprecated emotion.
LegacyItem(day, emotion) ==
    [obj |-> TRUE, id |-> 0, date |-> Ymd(day), emotion |-> emotion,
     createdAt |-> Missing, expiresAt |-> Missing]
\* An array element that is no object (a number, a string, null).
NonObject ==
    [obj |-> FALSE, id |-> 0, date |-> Missing, emotion |-> "",
     createdAt |-> Missing, expiresAt |-> Missing]

\* What the browser may hold under STORAGE_KEY when the page is opened, at
\* instant 0 or later: nothing, text that is no JSON, what an earlier session
\* saved (most recent first, the older entry to expire at UNDO_TIMEOUT_MS),
\* records of the earlier format.
PersistedInputs ==
    { Absent,
      Malformed,
      Stringify(<<Entry(102, "sad", 0 - 1),
                  Entry(101, "happy", UNDO_TIMEOUT_MS - ONE_DAY_MS)>>),
      [kind |-> "array", items |-> <<LegacyItem(0, "tired"), NonObject>>] }

----------------------------------------------------------------------------
\* App.tsx: state after construction

NoTimer == [kind |-> "none", due |-> 0]
NoInflight ==
    [active |-> FALSE, id |-> 0, createdAt |-> Missing, emotion |-> "calm", content |-> ""]
NoSave == [called |-> FALSE, arg |-> <<>>, at |-> 0]
Op(name, id) == [op |-> name, id |-> id]

\* The component's useState / useRef values at mount.
Mounted ==
    /\ entries = <<>>
    /\ loaded = <<>>
    /\ undoEntry = <<>>
    /\ undoTimerRef = NoTimer
    /\ pruneTimeoutId = NoTimer
    /\ content = ""
    /\ selectedEmotion = "calm"
    /\ comfort = FALSE
    /\ lastEntryIdFromComfort = 0
    /\ comfortLoading = FALSE
    /\ comfortError = ""
    /\ flushSubmitting = FALSE
    /\ inflight = NoInflight

InitWith(persisted) ==
    /\ journalStore \in {"local", "memory"}
    /\ localStorage \in IF journalStore = "local" THEN persisted ELSE {Absent}
    /\ inMemoryEntries = <<>>
    /\ storageFault \in IF journalStore = "local" THEN StorageFaults ELSE {"none"}
    /\ now = 0
    /\ ticks = 0
    /\ pc = "load"
    /\ Mounted
    /\ timers = {}
    /\ uuidCounter = 0
    /\ lastSave = NoSave
    /\ beforeDelete = <<>>
    /\ lastOp = Op("init", 0)

Init == InitWith(PersistedInputs)

\* The clock advances.
Tick ==
    /\ pc \in {"load", "idle", "unmounted"}
    /\ ticks < MaxTicks
    /\ \E d \in TickSteps : now' = now + d
    /\ ticks' = ticks + 1
    /\ UNCHANGED <<storeVars, pc, entries, loaded, undoVars, pruneTimeoutId, timers,
                   uuidCounter, formVars, lastSave, lastOp>>

----------------------------------------------------------------------------
\* App.tsx: the effects

\* The cleanups React runs at unmount: the expiry effect's and the undo
\* timer's.  The component's state is gone; a provider call still in flight
\* finds no component to update.
UnmountState ==
    /\ beforeDelete' = <<>>
    /\ entries' = <<>>
    /\ loaded' = <<>>
    /\ undoEntry' = <<>>
    /\ undoTimerRef' = NoTimer
    /\ pruneTimeoutId' = NoTimer
    /\ content' = ""
    /\ selectedEmotion' = "calm"
    /\ comfort' = FALSE
    /\ lastEntryIdFromComfort' = 0
    /\ comfortLoading' = FALSE
    /\ comfortError' = ""
    /\ flushSubmitting' = FALSE
    /\ inflight' = NoInflight

\* useEffect(() => { setEntries(loadJournalEntries()); }, [])
LoadEffect ==
    /\ pc = "load"
    /\ LET r == loadJournalEntries(journalStore, localStorage, inMemoryEntries, now,
                                   TimezoneOffsetMs, uuidCounter, storageFault)
       IN /\ loaded' = <<r.result>>
          /\ localStorage' = r.localStorage
          /\ inMemoryEntries' = r.inMemoryEntries
          /\ uuidCounter' = r.uuidCounter
    /\ pc' = "save"
    /\ lastSave' = NoSave
    /\ lastOp' = Op("load", 0)
    /\ UNCHANGED <<journalStore, storageFault, clockVars, entries, undoVars,
                   pruneTimeoutId, timers, formVars>>

\* The cleanup without its clearTimeout.
ExpiryCleanup_KeepsTimer ==
    /\ pc = "cleanup"
    /\ pruneTimeoutId' = NoTimer
    /\ pc' = "save"
    /\ lastOp' = Op("cleanup", 0)
    /\ UNCHANGED <<storeVars, clockVars, entries, loaded, undoVars, timers, uuidCounter,
                   formVars, lastSave>>

\* The cleanup of the expiry effect of the previous render:
\* () => window.clearTimeout(timeoutId).  React runs it before the effects
\* of the new render.
ExpiryCleanup ==
    /\ pc = "cleanup"
    /\ timers' = timers \ {pruneTimeoutId}
    /\ pruneTimeoutId' = NoTimer
    /\ pc' = "save"
    /\ lastOp' = Op("cleanup", 0)
    /\ UNCHANGED <<storeVars, clockVars, entries, loaded, undoVars, uuidCounter,
                   formVars, lastSave>>

\* useEffect(() => { saveJournalEntries(entries); }, [entries]).  Nothing
\* catches what saveJournalEntries throws: React takes the component down.
SaveEffect ==
    /\ pc = "save"
    /\ LET r == saveJournalEntries(journalStore, localStorage, inMemoryEntries,
                                   entries, now, storageFault)
       IN IF r.raised
          THEN /\ timers' = (timers \ {pruneTimeoutId}) \ {undoTimerRef}
               /\ UnmountState
               /\ pc' = "unmounted"
               /\ lastOp' = Op("saveRaised", 0)
               /\ UNCHANGED <<storeVars, clockVars, uuidCounter, lastSave>>
          ELSE /\ localStorage' = r.localStorage
               /\ inMemoryEntries' = r.inMemoryEntries
               /\ lastSave' = [called |-> TRUE, arg |-> entries, at |-> now]
               /\ pc' = "expiry"
               /\ lastOp' = Op("save", 0)
               /\ UNCHANGED <<journalStore, storageFault, clockVars, entries, loaded,
                              undoVars, pruneTimeoutId, timers, uuidCounter, formVars>>

\* Math.max in the place of Math.min.
RECURSIVE MaxExpiry(_)
MaxExpiry(es) ==
    LET head == DateParse(es[1].expiresAt)
        tail == MaxExpiry(Tail(es))
    IN IF Len(es) = 1 THEN head
       ELSE IF ~head.fin THEN tail
       ELSE IF ~tail.fin THEN head
       ELSE IF ~Less(head, tail) THEN head ELSE tail

\* Math.min(...entries.map(parse expiresAt).filter(finite)); es holds a
\* finite one.
RECURSIVE MinExpiry(_)
MinExpiry(es) ==
    LET head == DateParse(es[1].expiresAt)
        tail == MinExpiry(Tail(es))
    IN IF Len(es) = 1 THEN head
       ELSE IF ~head.fin THEN tail
       ELSE IF ~tail.fin THEN head
       ELSE IF ~Less(tail, head) THEN head ELSE tail

nextExpiryAtMs(es) == IF es = <<>> THEN NaN ELSE MinExpiry(es)

\* ToInt32(8.64e15): the largest time value of a Date as window.setTimeout
\* reads it, 8.64e15 mod 2^32 = 3269197824, a negative 32-bit integer.
MAX_TIME_MS_INT32 == 0 - 1025769472

\* window.setTimeout(callback, waitMs) takes its delay as a 32-bit signed
\* integer (WebIDL long) and a negative delay as 0.  (A delay near the epoch
\* is below 2^31 here and is taken as it is.)
SetTimeoutDelay(waitMs) ==
    LET int32 == IF waitMs.far = 0 THEN waitMs.v
                 ELSE waitMs.far * MAX_TIME_MS_INT32 + waitMs.v
    IN IF int32 < 0 THEN 0 ELSE int32

\* The timer the expiry effect arms for the entries at nowMs:
\* Math.max(nextExpiryAtMs - Date.now(), 0) + 25.
PruneTimer(es, nowMs) ==
    LET nextMs == nextExpiryAtMs(es)
        waitMs == IF Less(Num(nowMs), nextMs)
                  THEN Plus(nextMs, PRUNE_SKEW_MS - nowMs)
                  ELSE Num(PRUNE_SKEW_MS)
    IN [kind |-> "prune", due |-> nowMs + SetTimeoutDelay(waitMs)]

\* The expiry effect, useEffect(() => {...}, [entries]).  The render that
\* follows the mount effects commits the loaded entries.
ExpiryEffect ==
    /\ pc = "expiry"
    /\ LET activeEntries == filterActiveJournalEntries(entries, now)
       IN IF Len(activeEntries) # Len(entries)
          THEN /\ entries' = activeEntries
               /\ pc' = "cleanup"
               /\ UNCHANGED <<pruneTimeoutId, timers>>
          ELSE /\ IF ~nextExpiryAtMs(entries).fin
                  THEN UNCHANGED <<pruneTimeoutId, timers>>
                  ELSE /\ pruneTimeoutId' = PruneTimer(entries, now)
                       /\ timers' = timers \cup {PruneTimer(entries, now)}
               /\ pc' = IF loaded # <<>> THEN "commit" ELSE "idle"
               /\ UNCHANGED entries
    /\ lastOp' = Op("expiry", 0)
    /\ UNCHANGED <<storeVars, clockVars, loaded, undoVars, uuidCounter, formVars,
                   lastSave>>

\* The render caused by the load effect's setEntries.
CommitLoaded ==
    /\ pc = "commit"
    /\ entries' = loaded[1]
    /\ loaded' = <<>>
    /\ pc' = "cleanup"
    /\ lastOp' = Op("commit", 0)
    /\ UNCHANGED <<storeVars, clockVars, undoVars, pruneTimeoutId, timers, uuidCounter,
                   formVars, lastSave>>

\* The callback leaves the working set as it is.
PruneTimerFires_KeepsEntries ==
    /\ pc \in {"idle", "unmounted"}
    /\ \E timer \in timers :
        /\ timer.kind = "prune"
        /\ now >= timer.due
        /\ timers' = timers \ {timer}
    /\ lastOp' = Op("pruneTimer", 0)
    /\ UNCHANGED <<storeVars, clockVars, pc, entries, loaded, undoVars, pruneTimeoutId,
                   uuidCounter, formVars, lastSave>>

\* The callback of the expiry effect's timer.  The browser runs the callback
\* of an armed timer whether or not the component is still mounted.
PruneTimerFires ==
    /\ pc \in {"idle", "unmounted"}
    /\ \E timer \in timers :
        /\ timer.kind = "prune"
        /\ now >= timer.due
        /\ timers' = timers \ {timer}
    /\ LET prunedEntries == filterActiveJournalEntries(entries, now)
       IN IF Len(prunedEntries) = Len(entries)
          THEN UNCHANGED <<entries, pc>>
          ELSE entries' = prunedEntries /\ pc' = "cleanup"
    /\ lastOp' = Op("pruneTimer", 0)
    /\ UNCHANGED <<storeVars, clockVars, loaded, undoVars, pruneTimeoutId, uuidCounter,
                   formVars, lastSave>>

----------------------------------------------------------------------------
\* App.tsx: the undo window

UndoTimer(nowMs) == [kind |-> "undo", due |-> nowMs + UNDO_TIMEOUT_MS]

\* startUndoWindow without its clearTimeout.
startUndoWindow_NoClear(entry) ==
    /\ beforeDelete' = entries
    /\ undoEntry' = <<entry>>
    /\ undoTimerRef' = UndoTimer(now)
    /\ timers' = timers \cup {UndoTimer(now)}

startUndoWindow(entry) ==
    /\ beforeDelete' = entries
    /\ undoEntry' = <<entry>>
    /\ undoTimerRef' = UndoTimer(now)
    /\ timers' = (timers \ {undoTimerRef}) \cup {UndoTimer(now)}

\* closeUndoWindow without its setUndoEntry(null).
closeUndoWindow_KeepsEntry ==
    /\ beforeDelete' = <<>>
    /\ timers' = timers \ {undoTimerRef}
    /\ undoTimerRef' = NoTimer
    /\ undoEntry' = undoEntry

closeUndoWindow ==
    /\ beforeDelete' = <<>>
    /\ timers' = timers \ {undoTimerRef}
    /\ undoTimerRef' = NoTimer
    /\ undoEntry' = <<>>

\* The callback without its setUndoEntry(null).
UndoTimerFires_KeepsEntry ==
    /\ pc \in {"idle", "unmounted"}
    /\ \E timer \in timers :
        /\ timer.kind = "undo"
        /\ now >= timer.due
        /\ timers' = timers \ {timer}
    /\ undoTimerRef' = NoTimer
    /\ lastOp' = Op("undoTimer", 0)
    /\ UNCHANGED <<storeVars, clockVars, pc, entries, loaded, undoEntry, beforeDelete,
                   pruneTimeoutId, uuidCounter, formVars, lastSave>>

\* The callback also causes the effects on [entries] to run again.
UndoTimerFires_Rerenders ==
    /\ pc \in {"idle", "unmounted"}
    /\ \E timer \in timers :
        /\ timer.kind = "undo"
        /\ now >= timer.due
        /\ timers' = timers \ {timer}
    /\ undoEntry' = <<>>
    /\ undoTimerRef' = NoTimer
    /\ beforeDelete' = <<>>
    /\ pc' = "cleanup"
    /\ lastOp' = Op("undoTimer", 0)
    /\ UNCHANGED <<storeVars, clockVars, entries, loaded, pruneTimeoutId,
                   uuidCounter, formVars, lastSave>>

\* The callback startUndoWindow arms.
UndoTimerFires ==
    /\ pc \in {"idle", "unmounted"}
    /\ \E timer \in timers :
        /\ timer.kind = "undo"
        /\ now >= timer.due
        /\ timers' = timers \ {timer}
    /\ undoEntry' = <<>>
    /\ undoTimerRef' = NoTimer
    /\ beforeDelete' = <<>>
    /\ lastOp' = Op("undoTimer", 0)
    /\ UNCHANGED <<storeVars, clockVars, pc, entries, loaded, pruneTimeoutId,
                   uuidCounter, formVars, lastSave>>

HasId(es, id) == \E i \in 1..Len(es) : es[i].id = id

\* entries.find((entry) => entry.id === id), for an id some entry has
Find(es, id) == es[CHOOSE i \in 1..Len(es) :
                      es[i].id = id /\ \A j \in 1..(i - 1) : es[j].id # id]

\* The filter with === in the place of !==.
WithoutId_Inverted(es, id) == SelectSeq(es, LAMBDA entry : entry.id = id)

\* previousEntries.filter((entry) => entry.id !== id)
WithoutId(es, id) == SelectSeq(es, LAMBDA entry : entry.id # id)

\* removeEntryWithUndo(id): its effect on the working set and the undo window.
removeEntryWithUndo(id) ==
    IF ~HasId(entries, id)
    THEN UNCHANGED <<entries, pc, undoVars, timers>>
    ELSE /\ entries' = WithoutId(entries, id)
         /\ pc' = "cleanup"
         /\ startUndoWindow(Find(entries, id))

DeleteOp(id) ==
    Op(IF ~HasId(entries, id) THEN "deleteAbsent"
       ELSE IF undoEntry # <<>> THEN "deleteReplacing" ELSE "delete", id)

\* The entries the list shows a delete button for: entries.slice(0, 10).
recentEntries == SubSeq(entries, 1, IF Len(entries) < 10 THEN Len(entries) ELSE 10)

handleDeleteEntry ==
    /\ pc = "idle"
    /\ \E i \in 1..Len(recentEntries) :
        LET id == recentEntries[i].id
        IN /\ removeEntryWithUndo(id)
           /\ lastEntryIdFromComfort' =
                  IF lastEntryIdFromComfort = id THEN 0 ELSE lastEntryIdFromComfort
           /\ lastOp' = DeleteOp(id)
    /\ UNCHANGED <<storeVars, clockVars, loaded, pruneTimeoutId, uuidCounter, content,
                   selectedEmotion, comfort, comfortLoading, comfortError,
                   flushSubmitting, inflight, lastSave>>

\* The modal's "delete now" link.
handleDeleteNow ==
    /\ pc = "idle"
    /\ comfort
    /\ IF lastEntryIdFromComfort # 0
       THEN removeEntryWithUndo(lastEntryIdFromComfort)
       ELSE UNCHANGED <<entries, pc, undoVars, timers>>
    /\ comfort' = FALSE
    /\ lastEntryIdFromComfort' = 0
    /\ lastOp' = DeleteOp(lastEntryIdFromComfort)
    /\ UNCHANGED <<storeVars, clockVars, loaded, pruneTimeoutId, uuidCounter, content,
                   selectedEmotion, comfortLoading, comfortError, flushSubmitting,
                   inflight, lastSave>>

\* The modal's close button, its backdrop, its main button.
handleKeepTemporarily ==
    /\ pc = "idle"
    /\ comfort
    /\ comfort' = FALSE
    /\ lastEntryIdFromComfort' = 0
    /\ lastOp' = Op("keep", 0)
    /\ UNCHANGED <<storeVars, clockVars, pc, entries, loaded, undoVars, pruneTimeoutId,
                   timers, uuidCounter, content, selectedEmotion, comfortLoading,
                   comfortError, flushSubmitting, inflight, lastSave>>

\* The stable sort by createdAt, most recent first: each entry goes behind
\* the entries that do not sort after it.
RECURSIVE SortByCreatedAtDesc(_)
SortByCreatedAtDesc(es) ==
    IF es = <<>> THEN <<>>
    ELSE LET init == SortByCreatedAtDesc(SubSeq(es, 1, Len(es) - 1))
             last == es[Len(es)]
             key(e) == DateParse(e.createdAt)
             ahead == Cardinality({i \in 1..Len(init) : ~Less(key(init[i]), key(last))})
         IN SubSeq(init, 1, ahead) \o <<last>> \o SubSeq(init, ahead + 1, Len(init))

\* The updater without its sort.
Restore_Unsorted(previousEntries, entry) ==
    IF HasId(previousEntries, entry.id) THEN previousEntries
    ELSE <<entry>> \o previousEntries

\* The updater handleUndoDelete hands to setEntries.
Restore(previousEntries, entry) ==
    IF HasId(previousEntries, entry.id) THEN previousEntries
    ELSE SortByCreatedAtDesc(<<entry>> \o previousEntries)

\* The comparison with < in the place of <=.
undoEntryExpired_Strict(entry, nowMs) ==
    LET expiresAtMs == DateParse(entry.expiresAt)
    IN ~expiresAtMs.fin \/ Less(expiresAtMs, Num(nowMs))

\* !Number.isFinite(expiresAtMs) || expiresAtMs <= Date.now()
undoEntryExpired(entry, nowMs) ==
    LET expiresAtMs == DateParse(entry.expiresAt)
    IN ~expiresAtMs.fin \/ ~Less(Num(nowMs), expiresAtMs)

\* The toast's undo button; it is rendered only while undoEntry is set.
handleUndoDelete ==
    /\ pc = "idle"
    /\ undoEntry # <<>>
    /\ IF undoEntryExpired(undoEntry[1], now)
          THEN /\ closeUndoWindow
               /\ lastOp' = Op("undoExpired", undoEntry[1].id)
               /\ UNCHANGED <<entries, pc>>
          ELSE /\ entries' = Restore(entries, undoEntry[1])
               \* an updater that returns previousEntries causes no render
               /\ pc' = IF HasId(entries, undoEntry[1].id) THEN pc ELSE "cleanup"
               /\ closeUndoWindow
               /\ lastOp' = Op("undo", undoEntry[1].id)
    /\ UNCHANGED <<storeVars, clockVars, loaded, pruneTimeoutId, uuidCounter, formVars,
                   lastSave>>

----------------------------------------------------------------------------
\* App.tsx: the submission

\* The entry handleRelease hands to setEntries.
NewEntry(id, emotion, createdAt) ==
    [id |-> id,
     date |-> Slice10(createdAt),
     emotion |-> emotion,
     createdAt |-> createdAt,
     expiresAt |-> ToISOString(Plus(DateParse(createdAt), ONE_DAY_MS))]

\* The user types a text and picks an emotion (onChange, onClick), then
\* slides the knob: triggerFlushRelease() up to the await in handleRelease.
\* A blank text ends it with an error, any other text is sent to the
\* comfort provider.
triggerFlushRelease ==
    /\ pc = "idle"
    /\ ~(comfortLoading \/ flushSubmitting)
    /\ \E c \in ContentInputs, e \in EmotionInputs :
        /\ content' = c
        /\ IF Trim(c) = ""
           THEN /\ comfortError' = "blank"
                /\ lastOp' = Op("releaseBlank", 0)
                /\ UNCHANGED <<selectedEmotion, comfortLoading, flushSubmitting,
                               inflight, uuidCounter>>
           ELSE /\ uuidCounter < MaxUuids
                /\ selectedEmotion' = e
                /\ comfortLoading' = TRUE
                /\ flushSubmitting' = TRUE
                /\ comfortError' = ""
                /\ uuidCounter' = uuidCounter + 1
                /\ inflight' = [active |-> TRUE, id |-> uuidCounter + 1,
                                createdAt |-> ToISOString(Num(now)),
                                emotion |-> e, content |-> Trim(c)]
                /\ lastOp' = Op("release", uuidCounter + 1)
    /\ UNCHANGED <<storeVars, clockVars, pc, entries, loaded, undoVars, pruneTimeoutId,
                   timers, comfort, lastEntryIdFromComfort, lastSave>>

\* The new entry is put behind the entries held.
ReleaseResolved_Appends ==
    /\ pc = "idle"
    /\ inflight.active
    /\ comfort' = TRUE
    /\ lastEntryIdFromComfort' = inflight.id
    /\ entries' = entries
                      \o <<NewEntry(inflight.id, inflight.emotion, inflight.createdAt)>>
    /\ pc' = "cleanup"
    /\ content' = ""
    /\ comfortLoading' = FALSE
    /\ flushSubmitting' = FALSE
    /\ inflight' = NoInflight
    /\ lastOp' = Op("resolved", inflight.id)
    /\ UNCHANGED <<storeVars, clockVars, loaded, undoVars, pruneTimeoutId, timers,
                   uuidCounter, selectedEmotion, comfortError, lastSave>>

\* getComfortMessage resolved: the rest of the try block, then finally, then
\* the rest of triggerFlushRelease.
ReleaseResolved ==
    /\ pc = "idle"
    /\ inflight.active
    /\ comfort' = TRUE
    /\ lastEntryIdFromComfort' = inflight.id
    /\ entries' = <<NewEntry(inflight.id, inflight.emotion, inflight.createdAt)>>
                      \o entries
    /\ pc' = "cleanup"
    /\ content' = ""
    /\ comfortLoading' = FALSE
    /\ flushSubmitting' = FALSE
    /\ inflight' = NoInflight
    /\ lastOp' = Op("resolved", inflight.id)
    /\ UNCHANGED <<storeVars, clockVars, loaded, undoVars, pruneTimeoutId, timers,
                   uuidCounter, selectedEmotion, comfortError, lastSave>>

\* The entry is added before the await, so a rejection leaves it in.
ReleaseRejected_AddsEntry ==
    /\ pc = "idle"
    /\ inflight.active
    /\ comfortError' = "failed"
    /\ comfortLoading' = FALSE
    /\ flushSubmitting' = FALSE
    /\ entries' = <<NewEntry(inflight.id, inflight.emotion, inflight.createdAt)>>
                      \o entries
    /\ pc' = "cleanup"
    /\ inflight' = NoInflight
    /\ lastOp' = Op("rejected", inflight.id)
    /\ UNCHANGED <<storeVars, clockVars, loaded, undoVars, pruneTimeoutId,
                   timers, uuidCounter, content, selectedEmotion, comfort,
                   lastEntryIdFromComfort, lastSave>>

\* getComfortMessage rejected: catch, then finally.
ReleaseRejected ==
    /\ pc = "idle"
    /\ inflight.active
    /\ comfortError' = "failed"
    /\ comfortLoading' = FALSE
    /\ flushSubmitting' = FALSE
    /\ inflight' = NoInflight
    /\ lastOp' = Op("rejected", inflight.id)
    /\ UNCHANGED <<storeVars, clockVars, pc, entries, loaded, undoVars, pruneTimeoutId,
                   timers, uuidCounter, content, selectedEmotion, comfort,
                   lastEntryIdFromComfort, lastSave>>

----------------------------------------------------------------------------
\* App.tsx: teardown

\* The cleanup of the undo timer's effect is left out.
Unmount_KeepsUndoTimer ==
    /\ pc = "idle"
    /\ timers' = timers \ {pruneTimeoutId}
    /\ UnmountState
    /\ pc' = "unmounted"
    /\ lastOp' = Op("unmount", Cardinality(timers))
    /\ UNCHANGED <<storeVars, clockVars, uuidCounter, lastSave>>

\* React unmounts the component and runs the cleanups of its effects.  (The
\* history keeps how many timers were armed.)
Unmount ==
    /\ pc = "idle"
    /\ timers' = (timers \ {pruneTimeoutId}) \ {undoTimerRef}
    /\ UnmountState
    /\ pc' = "unmounted"
    /\ lastOp' = Op("unmount", Cardinality(timers))
    /\ UNCHANGED <<storeVars, clockVars, uuidCounter, lastSave>>

\* The component is mounted again in the same page: the module-level state
\* of journal-repository.ts is kept.  (Bounded: a load of records that
\* have no id draws fresh ids each time the store refuses the write.)
Remount ==
    /\ pc = "unmounted"
    /\ uuidCounter <= MaxUuids
    /\ pc' = "load"
    /\ lastOp' = Op("mount", 0)
    /\ UNCHANGED <<storeVars, clockVars, entries, loaded, undoVars, pruneTimeoutId,
                   timers, uuidCounter, formVars, lastSave>>

Next ==
    \/ Tick
    \/ LoadEffect
    \/ ExpiryCleanup
    \/ SaveEffect
    \/ ExpiryEffect
    \/ CommitLoaded
    \/ PruneTimerFires
    \/ UndoTimerFires
    \/ handleDeleteEntry
    \/ handleDeleteNow
    \/ handleKeepTemporarily
    \/ handleUndoDelete
    \/ triggerFlushRelease
    \/ ReleaseResolved
    \/ ReleaseRejected
    \/ Unmount
    \/ Remount

Spec == Init /\ [][Next]_vars

\* Persisted content no session of this program leaves behind: two records
\* with one id, two records with the older one first, two records of the
\* earlier format, a record kept until the last instant a Date can hold.
ForeignInputs ==
    { Stringify(<<Entry(102, "sad", 0 - 1), Entry(102, "happy", 0 - UNDO_TIMEOUT_MS)>>),
      Stringify(<<Entry(101, "happy", 0 - UNDO_TIMEOUT_MS), Entry(102, "sad", 0 - 1)>>),
      [kind |-> "array", items |-> <<LegacyItem(0, "tired"), LegacyItem(0, "grateful")>>],
      Stringify(<<[Entry(103, "calm", 0 - 1) EXCEPT !.expiresAt = IsoFar(1, 0)]>>) }

InitAnyStore == InitWith(PersistedInputs \cup ForeignInputs)

\* The program opened on any persisted content.
SpecAnyStore == InitAnyStore /\ [][Next]_vars

----------------------------------------------------------------------------
\* journal-repository.ts called directly, as a test of the module calls it:
\* localStorage, inMemoryEntries and the clock are the module's surroundings,
\* `entries` is the argument handed to filterActiveJournalEntries and
\* saveJournalEntries, `loaded` holds the value returned, selectedEmotion the
\* Emotion returned, lastOp the call made and how it ended.

NotArray == [kind |-> "object", items |-> <<>>]

\* Values of the emotion field: the five emotions, the deprecated labels,
\* other strings, a number, no value.
EmotionValues ==
    EMOTIONS \cup {"tired", "grateful", "relieved", "Calm", "", "#number", "#undefined"}

\* The clock at the call: the instant T = 0 the entries are created at,
\* T + 24h, T + 24h + 1 ms.
RepoTimes == {0, ONE_DAY_MS, ONE_DAY_MS + 1}

\* Values of the createdAt and expiresAt fields.
TimestampValues ==
    { Missing, Junk, Iso(ONE_DAY_MS), IsoZ(ONE_DAY_MS + 1), Ymd(2),
      IsoFar(1, 0), IsoFar(0 - 1, 0) }

\* Values of the date field: none, a date-only text, another text.
DateValues == {Missing, Ymd(1), Junk}

\* Loosely-typed records, as JSON.parse gives them.
LooseRecords ==
    { [obj |-> TRUE, id |-> id, date |-> date, emotion |-> "happy",
       createdAt |-> createdAt, expiresAt |-> expiresAt] :
          id \in {0, 103}, date \in DateValues,
          createdAt \in TimestampValues, expiresAt \in TimestampValues }
    \cup
    { [obj |-> TRUE, id |-> 103, date |-> Ymd(1), emotion |-> emotion,
       createdAt |-> Iso(0), expiresAt |-> Missing] :
          emotion \in EmotionValues }

RawInputs ==
    {Absent, Malformed, NotArray}
    \cup {[kind |-> "array", items |-> <<record>>] : record \in LooseRecords}
    \cup {[kind |-> "array", items |-> <<NonObject, first, second>>] :
            first \in {LegacyItem(1, "tired")},
            second \in { record \in LooseRecords :
                           /\ record.id = 0 /\ record.date = Missing
                           /\ record.expiresAt = Missing }}

\* JournalEntry values: built by handleRelease at T and one ms later,
\* written with other ISO-8601 texts, with an expiresAt that is no timestamp.
EntryValues ==
    { Entry(101, "happy", 0),
      Entry(102, "sad", 1),
      [id |-> 104, date |-> Ymd(0), emotion |-> "angry",
       createdAt |-> IsoZ(2), expiresAt |-> IsoZ(2 + ONE_DAY_MS)],
      [id |-> 105, date |-> Ymd(0), emotion |-> "calm",
       createdAt |-> Iso(3), expiresAt |-> Junk] }

MaxLen == 2

SequenceInputs == UNION {[1..n -> EntryValues] : n \in 0..MaxLen}

RepoInit ==
    /\ \/ /\ journalStore = "local"
          /\ storageFault \in StorageFaults
          /\ localStorage \in RawInputs
          /\ entries = <<>>
       \/ /\ journalStore = "local"
          /\ storageFault \in StorageFaults
          /\ localStorage = Absent
          /\ entries \in SequenceInputs
       \/ /\ journalStore = "memory"
          /\ storageFault = "none"
          /\ localStorage = Absent
          /\ entries \in SequenceInputs
    /\ inMemoryEntries = <<>>
    /\ now \in RepoTimes
    /\ ticks = 0
    /\ pc = "call"
    /\ loaded = <<>>
    /\ undoEntry = <<>>
    /\ undoTimerRef = NoTimer
    /\ pruneTimeoutId = NoTimer
    /\ content = ""
    /\ selectedEmotion = "calm"
    /\ comfort = FALSE
    /\ lastEntryIdFromComfort = 0
    /\ comfortLoading = FALSE
    /\ comfortError = ""
    /\ flushSubmitting = FALSE
    /\ inflight = NoInflight
    /\ timers = {}
    /\ uuidCounter = 0
    /\ lastSave = NoSave
    /\ beforeDelete = <<>>
    /\ lastOp = Op("init", 0)

appVars == <<undoVars, pruneTimeoutId, timers, content, comfort,
             lastEntryIdFromComfort, comfortLoading, comfortError, flushSubmitting,
             inflight>>

\* The record a call works on: the first object of the persisted array.
HasRecord == localStorage.kind = "array" /\ localStorage.items # <<>>
                 /\ localStorage.items[1].obj
TheRecord == localStorage.items[1]

CallFilterActive ==
    /\ pc = "call"
    /\ loaded' = <<filterActiveJournalEntries(entries, now)>>
    /\ pc' = "returned"
    /\ lastOp' = Op("filterActive", 0)
    /\ UNCHANGED <<storeVars, clockVars, entries, uuidCounter, selectedEmotion,
                   lastSave, appVars>>

CallNormalizeEmotion ==
    /\ pc = "call"
    /\ HasRecord
    /\ selectedEmotion' = normalizeEmotion(TheRecord.emotion)
    /\ pc' = "returned"
    /\ lastOp' = Op("normalizeEmotion", 0)
    /\ UNCHANGED <<storeVars, clockVars, entries, loaded, uuidCounter, lastSave,
                   appVars>>

CallNormalizeJournalEntry ==
    /\ pc = "call"
    /\ HasRecord
    /\ LET entry == normalizeJournalEntry(TheRecord, now, TimezoneOffsetMs,
                                          uuidCounter + 1)
       IN IF Raised(entry)
          THEN /\ lastOp' = Op("normalizeRaised", 0)
               /\ UNCHANGED <<loaded, uuidCounter>>
          ELSE /\ loaded' = <<<<entry>>>>
               /\ uuidCounter' = uuidCounter + (IF TheRecord.id = 0 THEN 1 ELSE 0)
               /\ lastOp' = Op("normalize", 0)
    /\ pc' = "returned"
    /\ UNCHANGED <<storeVars, clockVars, entries, selectedEmotion, lastSave, appVars>>

\* loadJournalEntries(), first thing or right after saveJournalEntries.
CallLoad ==
    /\ pc \in {"call", "saved"}
    /\ LET r == loadJournalEntries(journalStore, localStorage, inMemoryEntries, now,
                                   TimezoneOffsetMs, uuidCounter, storageFault)
       IN /\ localStorage' = r.localStorage
          /\ inMemoryEntries' = r.inMemoryEntries
          /\ uuidCounter' = r.uuidCounter
          /\ IF r.raised
             THEN /\ lastOp' = Op("loadRaised", 0)
                  /\ UNCHANGED loaded
             ELSE /\ lastOp' = Op(IF pc = "saved" THEN "loadAfterSave" ELSE "load", 0)
                  /\ loaded' = <<r.result>>
    /\ pc' = "returned"
    /\ UNCHANGED <<journalStore, storageFault, clockVars, entries, selectedEmotion,
                   lastSave, appVars>>

CallSave ==
    /\ pc = "call"
    /\ LET r == saveJournalEntries(journalStore, localStorage, inMemoryEntries,
                                   entries, now, storageFault)
       IN /\ localStorage' = r.localStorage
          /\ inMemoryEntries' = r.inMemoryEntries
          /\ IF r.raised
             THEN /\ lastOp' = Op("saveRaised", 0)
                  /\ pc' = "returned"
                  /\ UNCHANGED lastSave
             ELSE /\ lastOp' = Op("save", 0)
                  /\ pc' = "saved"
                  /\ lastSave' = [called |-> TRUE, arg |-> entries, at |-> now]
    /\ UNCHANGED <<journalStore, storageFault, clockVars, entries, loaded, uuidCounter,
                   selectedEmotion, appVars>>

RepoNext ==
    \/ CallFilterActive
    \/ CallNormalizeEmotion
    \/ CallNormalizeJournalEntry
    \/ CallLoad
    \/ CallSave

RepoSpec == RepoInit /\ [][RepoNext]_vars

----------------------------------------------------------------------------
\* Definitions the properties share

ExpiresAtMs(entry) == DateParse(entry.expiresAt).v
CreatedAtMs(entry) == DateParse(entry.createdAt).v

\* The entry is expired at instant t: its expiresAt is no instant after t.
Expired(entry, t) ==
    \/ DateParse(entry.expiresAt).fin = FALSE
    \/ DateParse(entry.expiresAt).far < 0
    \/ DateParse(entry.expiresAt).far = 0 /\ DateParse(entry.expiresAt).v <= t

\* The entries of es that are not expired at t, in the order of es.
RECURSIVE Unexpired(_, _)
Unexpired(es, t) ==
    IF es = <<>> THEN <<>>
    ELSE (IF Expired(es[1], t) THEN <<>> ELSE <<es[1]>>) \o Unexpired(Tail(es), t)

\* The entries the backing store holds, as the objects JSON.parse gives.
Stored == IF journalStore = "memory" THEN Stringify(inMemoryEntries) ELSE localStorage

PruneTimers == {timer \in timers : timer.kind = "prune"}
UndoTimers == {timer \in timers : timer.kind = "undo"}

----------------------------------------------------------------------------
C2_SaveWritesUnexpired ==
    lastSave.called => Stored = Stringify(Unexpired(lastSave.arg, lastSave.at))

\* A save was handed an expired entry and left it out of the store.
C2_Witness ==
    /\ lastSave.called
    /\ \E i \in 1..Len(lastSave.arg) : Expired(lastSave.arg[i], lastSave.at)
    /\ \E i \in 1..Len(lastSave.arg) : ~Expired(lastSave.arg[i], lastSave.at)
    /\ Len(Stored.items) < Len(lastSave.arg)

----------------------------------------------------------------------------
\* Progress: the page stays open and time passes

\* The clock reaches the deadline of an armed expiry timer:
\* window.setTimeout(..., waitMs) is waited out.
ClockReachesDeadline ==
    /\ pc = "idle"
    /\ \E timer \in timers :
        /\ timer.kind = "prune"
        /\ now < timer.due
        /\ now' = timer.due
    /\ UNCHANGED <<storeVars, ticks, pc, entries, loaded, undoVars, pruneTimeoutId,
                   timers, uuidCounter, formVars, lastSave, lastOp>>

\* React runs the effects of a render it has committed.
Effects ==
    \/ LoadEffect
    \/ ExpiryCleanup
    \/ SaveEffect
    \/ ExpiryEffect
    \/ CommitLoaded

LiveNext ==
    \/ Next
    \/ ClockReachesDeadline

\* The effects of a committed render run, the callback of an expiry timer
\* that is due runs, and the clock does not stop short of an armed deadline.
\* Nothing is assumed of the user.
LiveSpec ==
    /\ Init
    /\ [][LiveNext]_vars
    /\ WF_vars(Effects)
    /\ WF_vars(PruneTimerFires)
    /\ WF_vars(ClockReachesDeadline)

----------------------------------------------------------------------------
\* Steps and shapes the properties below speak of

Range(es) == {es[i] : i \in 1..Len(es)}
Ids(es) == {es[i].id : i \in 1..Len(es)}
NoDupIds(es) == \A i, j \in 1..Len(es) : es[i].id = es[j].id => i = j
SortedByCreatedAtDesc(es) ==
    \A i, j \in 1..Len(es) : i < j => CreatedAtMs(es[i]) >= CreatedAtMs(es[j])

\* handleUndoDelete runs with an entry pending.
UndoStep ==
    /\ pc = "idle"
    /\ undoEntry # <<>>
    /\ now' = now
    /\ lastOp'.op \in {"undo", "undoExpired"}

\* removeEntryWithUndo runs for an id of the working set.
DeleteStep ==
    /\ pc = "idle"
    /\ now' = now
    /\ lastOp'.op \in {"delete", "deleteReplacing"}

\* C4: an entry leaves the working set only by a delete of its id or when
\* its expiresAt <= now, and an entry that stays keeps its five attributes.
C4_LeavesOnlyByDeleteOrExpiry ==
    [][pc' # "unmounted" =>
         \A i \in 1..Len(entries) :
             \/ entries[i] \in Range(entries')
             \/ Expired(entries[i], now)
             \/ DeleteStep /\ lastOp'.id = entries[i].id]_vars

\* An unexpired entry is in the working set after another entry was deleted
\* and after the clock advanced.
C4_Witness ==
    /\ pc = "idle"
    /\ ticks > 0
    /\ undoEntry # <<>>
    /\ \E i \in 1..Len(entries) : ~Expired(entries[i], now)

\* C6 as stated: an undo inside the 5-second window puts the deleted entry
\* back, in createdAt-descending position, and the working set then holds the
\* entries it held before the delete.
C6_UndoRestoresTheWorkingSet ==
    [][(UndoStep /\ ~Expired(undoEntry[1], now) /\ now <= undoTimerRef.due) =>
         /\ undoEntry[1] \in Range(entries')
         /\ SortedByCreatedAtDesc(entries')
         /\ Range(entries') = Range(beforeDelete)]_vars

\* C6 amended: the undo puts the deleted entry back once, with its five
\* attributes, in createdAt-descending position, beside every entry the
\* working set holds at the undo; the working set holds the entries it held
\* before the delete when no entry was pruned or added in between.
C6_UndoRestoresTheEntry ==
    [][(UndoStep /\ ~Expired(undoEntry[1], now)) =>
         /\ undoEntry[1] \in Range(beforeDelete)
         /\ Range(entries') = Range(entries) \cup {undoEntry[1]}
         /\ Len(entries') = Len(entries) + 1
         /\ Cardinality({i \in 1..Len(entries') : entries'[i].id = undoEntry[1].id}) = 1
         /\ SortedByCreatedAtDesc(entries')
         /\ (Range(entries) = Range(beforeDelete) \ {undoEntry[1]}
                => Range(entries') = Range(beforeDelete))]_vars

\* An undo has put an entry back behind a more recent one.
C6_Witness ==
    /\ lastOp.op = "undo"
    /\ Len(entries) >= 2
    /\ entries[2].id = lastOp.id

\* C7: handleUndoDelete with a pending entry whose expiresAt <= now leaves
\* the working set as it is, empties the undo buffer and cancels the undo
\* timer.
C7_UndoOfExpiredEntryDismisses ==
    [][(UndoStep /\ Expired(undoEntry[1], now)) =>
         /\ entries' = entries
         /\ pc' = pc
         /\ undoEntry' = <<>>
         /\ undoTimerRef' = NoTimer
         /\ UndoTimers' = {}]_vars

\* handleUndoDelete has dismissed an expired pending entry.
C7_Witness ==
    /\ lastOp.op = "undoExpired"
    /\ undoEntry = <<>>
    /\ ~HasId(entries, lastOp.id)

\* C8 as stated: once more than UNDO_TIMEOUT_MS has passed since the most
\* recent delete, handleUndoDelete leaves the working set as it is.
C8_NoRestoreAfterFiveSeconds ==
    [][(UndoStep /\ now - (undoTimerRef.due - UNDO_TIMEOUT_MS) > UNDO_TIMEOUT_MS) =>
         entries' = entries]_vars

\* C8 amended: the deleted entry can be restored only while the undo timer
\* of the most recent delete is armed, that is until its callback has run;
\* the callback runs UNDO_TIMEOUT_MS after the delete or later, empties the
\* undo buffer and leaves the working set as it is.
C8_WindowOpen ==
    /\ undoEntry # <<>> => undoTimerRef \in UndoTimers
    /\ UndoTimers = {} => undoEntry = <<>>

C8_WindowCloses ==
    (pc = "idle" /\ lastOp'.op = "undoTimer" /\ UndoTimers' # UndoTimers) =>
        /\ now >= undoTimerRef.due
        /\ entries' = entries
        /\ undoEntry' = <<>>
        /\ UndoTimers' = {}

C8_RestorableOnlyWhileTimerArmed == []C8_WindowOpen /\ [][C8_WindowCloses]_vars

\* More than UNDO_TIMEOUT_MS after the delete the callback has not run and
\* the entry can still be restored.
C8_Witness ==
    /\ pc = "idle"
    /\ undoEntry # <<>>
    /\ now > undoTimerRef.due
    /\ ~Expired(undoEntry[1], now)

\* C9: the undo buffer holds at most one entry; while it holds one, exactly
\* one undo timer is armed, and while it is empty none is; a delete puts the
\* deleted entry in the buffer, cancels the earlier timer and arms one due in
\* UNDO_TIMEOUT_MS; nothing but a delete puts an entry in the buffer.
C9_BufferState ==
    /\ Len(undoEntry) <= 1
    /\ undoEntry # <<>> => UndoTimers = {undoTimerRef}
    /\ undoEntry = <<>> => UndoTimers = {} /\ undoTimerRef = NoTimer

C9_DeleteArmsTheWindow ==
    /\ DeleteStep =>
           /\ Len(undoEntry') = 1
           /\ undoEntry'[1] \in Range(entries)
           /\ undoEntry'[1].id = lastOp'.id
           /\ undoTimerRef' = [kind |-> "undo", due |-> now + UNDO_TIMEOUT_MS]
           /\ UndoTimers' = {undoTimerRef'}
    /\ (undoEntry' # undoEntry /\ undoEntry' # <<>>) => DeleteStep

C9_SinglePendingUndo == []C9_BufferState /\ [][C9_DeleteArmsTheWindow]_vars

\* A delete has replaced a pending entry whose timer was armed earlier.
C9_Witness ==
    /\ lastOp.op = "deleteReplacing"
    /\ undoEntry # <<>>
    /\ now > 0
    /\ UndoTimers = {UndoTimer(now)}

\* C10 as stated: no two entries of the working set have the same id,
\* whatever the persisted content.
C10_UniqueIds == NoDupIds(entries)

----------------------------------------------------------------------------
\* The repository's functions

\* Index sets that pick a sub-sequence of es equal to sub, in order.
RECURSIVE IsSubSeqOf(_, _)
IsSubSeqOf(sub, es) ==
    IF sub = <<>> THEN TRUE
    ELSE IF es = <<>> THEN FALSE
    ELSE IF sub[1] = es[1] THEN IsSubSeqOf(Tail(sub), Tail(es))
    ELSE IsSubSeqOf(sub, Tail(es))

\* expiresAt is a timestamp of an instant later than t.
ExpiresAfter(entry, t) ==
    /\ entry.expiresAt.t \in {"iso", "isoz", "isofar"}
    /\ \/ entry.expiresAt.far > 0
       \/ entry.expiresAt.far = 0 /\ entry.expiresAt.v >= t + 1

\* C12: filterActiveJournalEntries(S) is the sub-sequence of S, in the order
\* of S, of the entries whose expiresAt is a timestamp later than now; an
\* entry whose expiresAt is now, or earlier, or no timestamp, is left out.
C12_FilterKeepsUnexpired ==
    lastOp.op = "filterActive" =>
        /\ IsSubSeqOf(loaded[1], entries)
        /\ \A i \in 1..Len(loaded[1]) : ExpiresAfter(loaded[1][i], now)
        /\ Len(loaded[1]) = Cardinality({i \in 1..Len(entries) : ExpiresAfter(entries[i], now)})

\* At T + 24h the filter has left out an entry created at T and kept one
\* created at T + 1 ms.
C12_Witness ==
    /\ lastOp.op = "filterActive"
    /\ now = ONE_DAY_MS
    /\ entries = <<Entry(101, "happy", 0), Entry(102, "sad", 1)>>
    /\ loaded = <<<<Entry(102, "sad", 1)>>>>

\* C11: the working set is in createdAt-descending order in every reachable
\* state, whatever was loaded.
C11_WorkingSetSorted == SortedByCreatedAtDesc(entries)

\* A JournalEntry as section 3 of the spec and types.ts have it: a string
\* id, a string date, one of the five emotions, ISO-8601 timestamps.
IsTimestamp(s) == s.t \in {"iso", "isoz", "isofar"}
ValidJournalEntry(entry) ==
    /\ entry.id # 0
    /\ isString(entry.date)
    /\ entry.emotion \in EMOTIONS
    /\ IsTimestamp(entry.createdAt)
    /\ IsTimestamp(entry.expiresAt)

\* loadJournalEntries() has returned right after saveJournalEntries(entries)
\* returned, for valid entries, and the storage refuses nothing.
RoundTrip ==
    /\ lastOp.op = "loadAfterSave"
    /\ storageFault = "none"
    /\ \A i \in 1..Len(entries) : ValidJournalEntry(entries[i])

\* C13 as stated: the round trip returns the unexpired entries of S with the
\* same attributes, in the same order, in both store modes.
C13_RoundTripExact == RoundTrip => loaded[1] = Unexpired(entries, now)

\* C13 amended: the round trip returns the unexpired entries of S in the
\* same order, with the same id, date and emotion and with createdAt and
\* expiresAt denoting the same instants, written as toISOString() writes
\* them; the attributes are the same in the memory store, and in the local
\* store when the timestamps of S are already in that form.
C13_RoundTripSameInstants ==
    RoundTrip =>
        LET active == Unexpired(entries, now)
            result == loaded[1]
        IN /\ Len(result) = Len(active)
           /\ \A i \in 1..Len(result) :
                /\ result[i].id = active[i].id
                /\ result[i].date = active[i].date
                /\ result[i].emotion = active[i].emotion
                /\ DateParse(result[i].createdAt) = DateParse(active[i].createdAt)
                /\ DateParse(result[i].expiresAt) = DateParse(active[i].expiresAt)
                /\ journalStore = "local" =>
                       result[i].createdAt.t = "iso" /\ result[i].expiresAt.t = "iso"
                /\ (\/ journalStore = "memory"
                    \/ active[i].createdAt.t = "iso" /\ active[i].expiresAt.t = "iso")
                       => result[i] = active[i]

\* The round trip through the local store has returned an entry whose
\* timestamps were written in another ISO-8601 form, behind one it returned
\* as it was.
C13_Witness ==
    /\ RoundTrip
    /\ journalStore = "local"
    /\ Len(loaded[1]) = 2
    /\ loaded[1][1] = entries[1]
    /\ entries[2].createdAt.t = "isoz"

\* A step of loadJournalEntries throws, or there is no array to read: the
\* read is refused, nothing is stored, the text is no JSON or no array, the
\* normalization of a record throws, or the write of the pruned array is
\* refused.
NothingToLoad ==
    \/ storageFault = "read"
    \/ localStorage.kind # "array"
    \/ \E i \in 1..Len(localStorage.items) :
          /\ localStorage.items[i].obj
          /\ LET entry == normalizeJournalEntry(localStorage.items[i], now,
                                                TimezoneOffsetMs, 1)
             IN Raised(entry) \/ (storageFault = "write" /\ Expired(entry, now))

\* loadJournalEntries() is called on the local store.
LoadStep ==
    /\ pc \in {"call", "saved"}
    /\ journalStore = "local"
    /\ lastOp'.op \in {"load", "loadAfterSave", "loadRaised"}

\* C14: loadJournalEntries raises nothing; when the read is refused, nothing
\* is stored, the text is no JSON or no array, or a step of the load throws,
\* it returns the empty sequence and leaves the store as it is.
C14_LoadNeverRaises ==
    /\ [](lastOp.op # "loadRaised")
    /\ [][(LoadStep /\ NothingToLoad) =>
             /\ loaded' = <<<<>>>>
             /\ localStorage' = localStorage]_vars

\* loadJournalEntries has returned the empty sequence for an array with a
\* record whose normalization throws.
C14_Witness ==
    /\ lastOp.op = "load"
    /\ storageFault = "none"
    /\ localStorage.kind = "array"
    /\ NothingToLoad
    /\ loaded = <<<<>>>>

\* C15: when localStorage refuses the write, saveJournalEntries raises to the
\* save effect, which catches nothing: the store is left as it was, no save
\* is recorded as done, and the component is taken down.
C15_SaveFailureSurfaces ==
    /\ []((lastOp.op = "save" /\ journalStore = "local") => storageFault # "write")
    /\ [][(pc = "save" /\ journalStore = "local" /\ storageFault = "write") =>
             /\ lastOp'.op = "saveRaised"
             /\ pc' = "unmounted"
             /\ localStorage' = localStorage
             /\ lastSave' = lastSave]_vars

\* The save effect has met a refused write with entries in the store.
C15_Witness ==
    /\ lastOp.op = "saveRaised"
    /\ pc = "unmounted"
    /\ ~lastSave.called
    /\ localStorage.kind = "array"
    /\ Len(localStorage.items) = 2

\* handleRelease ends without success: the text is blank, or the provider
\* has failed.
FailedSubmissionStep ==
    /\ pc = "idle"
    /\ now' = now
    /\ lastOp'.op \in {"releaseBlank", "rejected"}

\* C16: a submission that fails changes neither the working set nor the
\* store nor the undo buffer, shows an error and leaves comfortLoading
\* false; a blank text does not reach the provider; a submission adds its
\* entry only when the provider has answered.
C16_FailedSubmissionMutatesNothing ==
    [][/\ FailedSubmissionStep =>
            /\ entries' = entries
            /\ pc' = "idle"
            /\ UNCHANGED storeVars
            /\ UNCHANGED <<undoEntry, undoTimerRef>>
            /\ UndoTimers' = UndoTimers
            /\ comfortError' # ""
            /\ comfortLoading' = FALSE
            /\ lastOp'.op = "releaseBlank" => inflight' = inflight
       /\ (\E i \in 1..Len(entries') :
              /\ ~HasId(entries, entries'[i].id)
              /\ lastOp'.op \notin {"commit", "undo"})
            => /\ lastOp'.op = "resolved"
               /\ inflight.active
               /\ entries'[1].id = inflight.id]_vars

\* The provider has failed while the working set and the undo buffer held
\* entries.
C16_Witness ==
    /\ lastOp.op = "rejected"
    /\ comfortError = "failed"
    /\ ~comfortLoading
    /\ entries # <<>>
    /\ undoEntry # <<>>

\* C17: no save is issued for a working set that is about to be replaced:
\* when the save effect calls saveJournalEntries, no setEntries of another
\* working set is pending from the load effect.
C17_NoSupersededSave ==
    [][(pc = "save" /\ lastOp'.op = "save") =>
          (loaded = <<>> \/ loaded[1] = entries)]_vars

\* C18: normalizeJournalEntry raises nothing, whatever the record, and
\* returns a string id, a string date, one of the five emotions and
\* createdAt and expiresAt that parse to finite instants.
C18_NormalizerTotal ==
    /\ lastOp.op # "normalizeRaised"
    /\ lastOp.op = "normalize" =>
          /\ loaded[1][1].id # 0
          /\ isString(loaded[1][1].date)
          /\ loaded[1][1].emotion \in EMOTIONS
          /\ DateParse(loaded[1][1].createdAt).fin
          /\ DateParse(loaded[1][1].expiresAt).fin

\* normalizeJournalEntry has returned for the record TheRecord.
Normalized == lastOp.op = "normalize"

\* C19: createdAt is the instant of the persisted createdAt when that
\* parses, else the local midnight of the date field when that is a
\* date-only text, else now; expiresAt is the instant of the persisted
\* expiresAt when that parses, else createdAt + 24h.
C19_TimestampPrecedence ==
    Normalized =>
        LET entry == loaded[1][1]
            createdAtMs == DateParse(entry.createdAt)
        IN /\ entry.createdAt.t \in {"iso", "isofar"}
           /\ entry.expiresAt.t \in {"iso", "isofar"}
           /\ createdAtMs =
                 IF DateParse(TheRecord.createdAt).fin THEN DateParse(TheRecord.createdAt)
                 ELSE IF TheRecord.date.t = "ymd"
                 THEN Num(TheRecord.date.v * ONE_DAY_MS - TimezoneOffsetMs)
                 ELSE Num(now)
           /\ DateParse(entry.expiresAt) =
                 IF DateParse(TheRecord.expiresAt).fin THEN DateParse(TheRecord.expiresAt)
                 ELSE [createdAtMs EXCEPT !.v = @ + ONE_DAY_MS]

\* A record with a date and neither createdAt nor expiresAt has been given
\* the local midnight of that date and the instant 24h later.
C19_Witness ==
    /\ Normalized
    /\ TheRecord.createdAt = Missing
    /\ TheRecord.expiresAt = Missing
    /\ TheRecord.date = Ymd(1)
    /\ loaded[1][1].createdAt = Iso(ONE_DAY_MS - TimezoneOffsetMs)
    /\ loaded[1][1].expiresAt = Iso(2 * ONE_DAY_MS - TimezoneOffsetMs)

\* C20: normalizeEmotion gives each of the five emotions itself, "sad" for
\* "tired", "calm" for "grateful" and "relieved", "calm" for anything else.
C20_EmotionMapping ==
    lastOp.op = "normalizeEmotion" =>
        selectedEmotion =
            CASE TheRecord.emotion = "calm" -> "calm"
              [] TheRecord.emotion = "happy" -> "happy"
              [] TheRecord.emotion = "angry" -> "angry"
              [] TheRecord.emotion = "anxious" -> "anxious"
              [] TheRecord.emotion = "sad" -> "sad"
              [] TheRecord.emotion = "tired" -> "sad"
              [] OTHER -> "calm"

\* normalizeEmotion has mapped the deprecated label "tired".
C20_Witness ==
    /\ lastOp.op = "normalizeEmotion"
    /\ TheRecord.emotion = "tired"
    /\ selectedEmotion = "sad"

----------------------------------------------------------------------------
\* The timers of the component

\* The callback of a prune timer runs.
PruneTimerStep ==
    /\ pc = "idle"
    /\ lastOp'.op = "pruneTimer"
    /\ PruneTimers' # PruneTimers

\* The callback of an undo timer runs.
UndoTimerStep ==
    /\ pc = "idle"
    /\ lastOp'.op = "undoTimer"
    /\ UndoTimers' # UndoTimers

\* C21: at most one prune timer is armed at any time, and it is the one the
\* last run of the expiry effect armed; a prune timer is armed only when
\* none is (the cleanup has cancelled the earlier one), and the only prune
\* callback that runs is that of the timer armed last.
C21_OneTimerArmed ==
    /\ Cardinality(PruneTimers) <= 1
    /\ PruneTimers \subseteq {pruneTimeoutId}

C21_CancelBeforeArm ==
    /\ (PruneTimers' # PruneTimers /\ PruneTimers' # {}) =>
           /\ PruneTimers = {}
           /\ pc = "expiry"
    /\ PruneTimerStep =>
           /\ PruneTimers = {pruneTimeoutId}
           /\ PruneTimers' = {}

C21_SinglePruneTimer == []C21_OneTimerArmed /\ [][C21_CancelBeforeArm]_vars

\* The entry that was to expire first has been deleted: the timer armed for
\* it is gone and the one armed now is due later.
C21_Witness ==
    /\ pc = "idle"
    /\ undoEntry # <<>>
    /\ entries # <<>>
    /\ PruneTimers = {pruneTimeoutId}
    /\ pruneTimeoutId.due > ExpiresAtMs(undoEntry[1]) + PRUNE_SKEW_MS

\* C22 as stated: while React is idle and the working set is not empty,
\* exactly one prune timer is armed, due at max(minExpiresAt - t, 0) + 25 ms
\* after the instant t the expiry effect ran at; while the working set is
\* empty (and no cleanup is pending) no prune timer is armed.
C22_PruneTimerArmed ==
    /\ (pc = "idle" /\ entries # <<>>) =>
           /\ Cardinality(PruneTimers) = 1
           /\ \A timer \in PruneTimers :
                  LET t == timer.due - PRUNE_SKEW_MS
                      minExpiresAt == MinExpiry(entries)
                  IN /\ minExpiresAt.fin
                     /\ minExpiresAt.far = 0
                     /\ \/ t = minExpiresAt.v
                        \/ minExpiresAt.v <= t /\ t <= now
    /\ (entries = <<>> /\ pc # "cleanup") => PruneTimers = {}

\* C23: after the component is torn down no timer is armed, and no timer
\* callback runs until it is mounted again: the teardown cancels the prune
\* timer and the undo timer, whatever the state it occurs in.
C23_NoTimerArmed == pc = "unmounted" => timers = {}

C23_NoCallbackRuns == pc = "unmounted" => lastOp'.op \notin {"pruneTimer", "undoTimer"}

C23_TeardownCancelsTimers == []C23_NoTimerArmed /\ [][C23_NoCallbackRuns]_vars

\* The component was torn down with a non-empty working set and a pending
\* undo, both timers armed.
C23_Witness ==
    /\ pc = "unmounted"
    /\ lastOp = Op("unmount", 2)
    /\ lastSave.called
    /\ lastSave.arg # <<>>
    /\ timers = {}

\* C24: a load of the local store that runs to its end and drops an entry
\* (its expiresAt is no instant after now) writes the pruned set to the
\* store before it returns; a load that drops nothing writes nothing; after
\* either the store holds no record whose expiresAt is an instant at or
\* before now.  The memory store holds the pruned set after every load.
C24_LoadRewritesPrunedSet ==
    [][/\ (LoadStep /\ ~NothingToLoad) =>
              LET objects == SelectSeq(localStorage.items, LAMBDA item : item.obj)
                  stored == localStorage'.items
              IN /\ Len(loaded'[1]) < Len(objects) =>
                        localStorage' = Stringify(loaded'[1])
                 /\ Len(loaded'[1]) = Len(objects) => localStorage' = localStorage
                 /\ \A i \in 1..Len(stored) :
                        stored[i].obj =>
                            /\ ~(/\ DateParse(stored[i].expiresAt).fin
                                 /\ ~Less(Num(now), DateParse(stored[i].expiresAt)))
                            /\ ~Expired(normalizeJournalEntry(stored[i], now,
                                                              TimezoneOffsetMs, 1), now)
       /\ (/\ pc \in {"call", "saved"}
           /\ journalStore = "memory"
           /\ lastOp'.op \in {"load", "loadAfterSave"}) =>
              /\ inMemoryEntries' = loaded'[1]
              /\ inMemoryEntries' = Unexpired(inMemoryEntries, now)]_vars

\* A load has dropped one record of the earlier format and kept the other:
\* the store holds the entry kept, as normalized.
C24_Witness ==
    /\ lastOp.op = "load"
    /\ journalStore = "local"
    /\ loaded # <<>>
    /\ Len(loaded[1]) = 1
    /\ localStorage = Stringify(loaded[1])
    /\ localStorage.items[1].emotion = "sad"

\* C25: the callback of the undo timer empties the undo buffer and drops its
\* timer handle, and nothing else: the working set, the two stores and the
\* prune timer are as they were, and no effect runs (no save).
C25_UndoTimerOnlyClearsBuffer ==
    [][UndoTimerStep =>
         /\ undoEntry' = <<>>
         /\ undoTimerRef' = NoTimer
         /\ timers' = timers \ {undoTimerRef}
         /\ entries' = entries
         /\ loaded' = loaded
         /\ localStorage' = localStorage
         /\ inMemoryEntries' = inMemoryEntries
         /\ pruneTimeoutId' = pruneTimeoutId
         /\ PruneTimers' = PruneTimers
         /\ pc' = "idle"
         /\ lastSave' = lastSave]_vars

\* The undo timer has fired with entries in the working set, a prune timer
\* armed and the last save that of the working set without the deleted
\* entry.
C25_Witness ==
    /\ lastOp.op = "undoTimer"
    /\ pc = "idle"
    /\ undoEntry = <<>>
    /\ entries # <<>>
    /\ PruneTimers # {}
    /\ lastSave.called
    /\ lastSave.arg = entries
    /\ now >= lastSave.at + UNDO_TIMEOUT_MS

\* removeEntryWithUndo is asked for an id the working set does not hold (the
\* modal's "delete now" for an entry that is gone).
DeleteAbsentStep ==
    /\ pc = "idle"
    /\ comfort
    /\ ~comfort'
    /\ lastOp'.op = "deleteAbsent"

\* C26 as stated: removeEntryWithUndo(id) for an id the working set does not
\* hold changes nothing (working set, undo buffer, undo timer); for an id it
\* holds, exactly one entry, of that id, leaves the working set and every
\* other entry keeps its position and its attributes.
C26_DeleteRemovesOneEntry ==
    [][/\ DeleteAbsentStep =>
              /\ entries' = entries
              /\ undoEntry' = undoEntry
              /\ undoTimerRef' = undoTimerRef
              /\ timers' = timers
              /\ pc' = "idle"
       /\ DeleteStep =>
              \E i \in 1..Len(entries) :
                  /\ entries[i].id = lastOp'.id
                  /\ entries' = SubSeq(entries, 1, i - 1)
                                    \o SubSeq(entries, i + 1, Len(entries))]_vars

\* handleRelease starts a provider call.
SubmitStep ==
    /\ pc = "idle"
    /\ ~inflight.active
    /\ inflight'.active

\* The provider call of handleRelease has resolved.
ResolvedStep ==
    /\ pc = "idle"
    /\ inflight.active
    /\ lastOp'.op = "resolved"

\* C27: a submission whose provider call resolves adds one entry, at the
\* front of the working set: its id is the one drawn at the submission, held
\* by no entry; its emotion is the one selected at the submission; its
\* createdAt is the instant of the submission in toISOString form, its date
\* the first ten characters of that text, its expiresAt the instant 24 h
\* later; the entries held when the call resolves follow it in their order.
C27_SubmissionAddsOneEntry ==
    [][/\ SubmitStep =>
              /\ inflight'.createdAt = Iso(now)
              /\ inflight'.emotion = selectedEmotion'
              /\ inflight'.id = uuidCounter'
              /\ uuidCounter' = uuidCounter + 1
              /\ entries' = entries
       /\ ResolvedStep =>
              /\ Len(entries') = Len(entries) + 1
              /\ Tail(entries') = entries
              /\ entries'[1].id = inflight.id
              /\ ~HasId(entries, inflight.id)
              /\ undoEntry # <<>> => undoEntry[1].id # inflight.id
              /\ entries'[1].emotion = inflight.emotion
              /\ entries'[1].createdAt = inflight.createdAt
              /\ entries'[1].date = Ymd(inflight.createdAt.v \div ONE_DAY_MS)
              /\ entries'[1].expiresAt = Iso(inflight.createdAt.v + ONE_DAY_MS)]_vars

\* A provider call has resolved after the clock advanced and an entry was
\* deleted while the call was in flight: the new entry is ahead of the
\* entries held.
C27_Witness ==
    /\ lastOp.op = "resolved"
    /\ Len(entries) >= 2
    /\ entries[1].id = lastOp.id
    /\ CreatedAtMs(entries[1]) < now
    /\ undoEntry # <<>>
    /\ undoTimerRef.due - UNDO_TIMEOUT_MS > CreatedAtMs(entries[1])

\* C28 as stated: mounting loses no data.  From the load effect until the
\* loaded entries are committed, no step takes out of the backing store a
\* record that is not expired; the entries committed are the unexpired
\* entries of the store, and the save that follows leaves them in it.
C28_MountLosesNoData ==
    [][(pc = "load" \/ loaded # <<>>) =>
         \A j \in 1..Len(Stored.items) :
             (Stored.items[j].obj /\ ~Expired(Stored.items[j], now)) =>
                 \E k \in 1..Len(Stored'.items) : Stored'.items[k] = Stored.items[j]]_vars

\* C29: the entry held in the undo buffer is not in the working set: no
\* entry of the working set has the id of the pending entry.
C29_PendingEntryNotInWorkingSet ==
    undoEntry # <<>> => ~HasId(entries, undoEntry[1].id)

\* An entry is pending while the working set holds a submitted entry ahead
\* of a loaded one, after the clock advanced.
C29_Witness ==
    /\ pc = "idle"
    /\ undoEntry # <<>>
    /\ Len(entries) >= 2
    /\ entries[1].id = 1
    /\ ticks > 0
====
